---- MODULE Spec2Model ----
(***************************************************************************)
(* Model of ExtendedSemanticAnalyzer (compiler/semantic/extended_analyzer) *)
(* and of the data types it uses (common/types): one analyzer instance,    *)
(* its analyze() calls split into the clause passes of                     *)
(* _analyze_select_statement, and the quadruples they emit.                *)
(***************************************************************************)
EXTENDS Integers, Sequences, FiniteSets, TLC

(***************************************************************************)
(* Bounds of the model.                                                    *)
(***************************************************************************)
\* longest child list of a select statement in ClauseASTs
MaxClauses == 3
\* longest column list in ColumnASTs
MaxColumns == 3
\* most JOIN clauses of a statement in JoinASTs
MaxJoins == 3
\* analyze() calls on one instance under SpecReuse
MaxCalls == 3

(***************************************************************************)
(* Python values.  Every value the analyzer stores in a quadruple field    *)
(* or in a node's value is encoded as a tagged sequence of strings, so     *)
(* that None, "", [] and a one-element list stay different values.         *)
(***************************************************************************)
None == <<"None">>
S(s) == <<"str", s>>
L(items) == <<"list">> \o items
D(pairs) == <<"dict">> \o pairs

IsList(v) == v[1] = "list"
Items(v) == SubSeq(v, 2, Len(v))
StrOf(v) == v[2]

\* Python truthiness of None, str, list and dict
Truthy(v) ==
    IF v[1] = "None" THEN FALSE
    ELSE IF v[1] = "str" THEN v[2] # ""
    ELSE Len(v) > 1

\* str.format of a value inside an f-string
Format(v) == IF v[1] = "None" THEN "None" ELSE v[2]

\* d[key] of a dict encoded as D(<<k1, v1, k2, v2, ...>>)
DictGet(d, key) ==
    LET i == CHOOSE j \in 2..Len(d) : j % 2 = 0 /\ d[j] = key
    IN d[i + 1]

RECURSIVE JoinFrom(_, _, _)
JoinFrom(sep, items, i) ==
    IF i > Len(items) THEN ""
    ELSE IF i = Len(items) THEN items[i]
    ELSE items[i] \o sep \o JoinFrom(sep, items, i + 1)

\* sep.join(items)
Join(sep, items) == JoinFrom(sep, items, 1)

(***************************************************************************)
(* common/types.py                                                         *)
(***************************************************************************)
SELECT_STMT == "SELECT_STATEMENT"
COLUMN_LIST == "COLUMN_LIST"
TABLE_NAME == "TABLE_NAME"
WHERE_CLAUSE == "WHERE_CLAUSE"
CONDITION == "CONDITION"
IDENTIFIER == "IDENTIFIER"
JOIN_CLAUSE == "JOIN_CLAUSE"
ON_CLAUSE == "ON_CLAUSE"
GROUP_BY_CLAUSE == "GROUP_BY_CLAUSE"
HAVING_CLAUSE == "HAVING_CLAUSE"
AGGREGATE_FUNCTION == "AGGREGATE_FUNCTION"
ORDER_BY_CLAUSE == "ORDER_BY_CLAUSE"
ORDER_SPEC == "ORDER_SPEC"

ASTNode(type, value, children) ==
    [type |-> type, value |-> value, children |-> children]

Quadruple(op, arg1, arg2, result) ==
    [op |-> op, arg1 |-> arg1, arg2 |-> arg2, result |-> result]

Symbol(name, type, scope, line, column) ==
    [name |-> name, type |-> type, scope |-> scope, line |-> line,
     column |-> column]

\* SymbolTable.symbols as the set of its values: one symbol per name
add_symbol(symbols, symbol) ==
    {s \in symbols : s.name # symbol.name} \cup {symbol}

lookup(symbols, name) ==
    IF \E s \in symbols : s.name = name
    THEN CHOOSE s \in symbols : s.name = name
    ELSE None

(***************************************************************************)
(* ExtendedSemanticAnalyzer: the helpers.  A pass state st carries the     *)
(* instance fields (quadruples, temp_counter, label_counter,               *)
(* symbol_table), the temporaries _generate_temp has returned in this call *)
(* (generated) and whether an exception is propagating (raised).           *)
(***************************************************************************)
\* number of parameters of _emit after self
EmitArity == 4

TempName(n) == "T" \o ToString(n)


\* _generate_temp without the increment
GenerateTempNoIncrement(st) ==
    [st EXCEPT !.generated = Append(@, TempName(st.temp_counter))]

\* _generate_temp: the state after the call; CurrentTemp is what it returned
GenerateTemp(st) ==
    [st EXCEPT !.temp_counter = @ + 1,
               !.generated = Append(@, TempName(st.temp_counter + 1))]

CurrentTemp(st) == S(TempName(st.temp_counter))

\* a call self._emit(*args): a call with the wrong number of arguments
\* raises TypeError before the body runs
Emit(st, args) ==
    IF Len(args) # EmitArity
    THEN [st EXCEPT !.raised = TRUE]
    ELSE [st EXCEPT !.quadruples =
              Append(@, Quadruple(args[1], args[2], args[3], args[4]))]

GetAggregateColumn(agg_node) == S("value")

AnalyzeJoinCondition(node) ==
    D(<<"left", "table1.id", "right", "table2.id", "op", "EQ">>)

\* _analyze_condition: [st, ret], ret the temporary it returns
AnalyzeCondition(st, node) ==
    LET s1 == GenerateTemp(st)
        condition_temp == CurrentTemp(s1)
    IN [st |-> Emit(s1, <<S("CONDITION"), S("column"), S(">"), S("value"),
                          condition_temp>>),
        ret |-> condition_temp]

(***************************************************************************)
(* _analyze_from_clause                                                    *)
(***************************************************************************)
NewTableInfo == [main_table |-> None, tables |-> <<>>, aliases |-> <<>>]

RECURSIVE FromLoop(_, _, _, _)
FromLoop(st, info, children, i) ==
    IF i > Len(children) THEN [st |-> st, table_info |-> info]
    ELSE IF children[i].type = TABLE_NAME
    THEN LET table_name == children[i].value
         IN FromLoop(
                [st EXCEPT !.symbol_table =
                     add_symbol(@, Symbol(table_name, "TABLE", "GLOBAL", 0, 0))],
                [info EXCEPT !.main_table = table_name,
                             !.tables = Append(@, table_name)],
                children, i + 1)
    ELSE FromLoop(st, info, children, i + 1)

AnalyzeFromClause(st, node) == FromLoop(st, NewTableInfo, node.children, 1)

(***************************************************************************)
(* _analyze_select_list and _analyze_column_list                           *)
(***************************************************************************)
NewSelectInfo ==
    [columns |-> L(<<>>), aggregates |-> <<>>, has_aggregates |-> FALSE]


\* a select list built back to front
AddColumnInFront(columns, name) ==
    IF IsList(columns) THEN L(<<name>> \o Items(columns)) ELSE L(<<name>>)

\* select_info['columns'] after one more column or temporary
AddColumn(columns, name) ==
    IF IsList(columns) THEN columns \o <<name>> ELSE L(<<name>>)

RECURSIVE ColumnLoop(_, _, _, _)
ColumnLoop(st, info, children, i) ==
    IF i > Len(children) \/ st.raised THEN [st |-> st, select_info |-> info]
    ELSE LET child == children[i] IN
      IF child.type = IDENTIFIER
      THEN IF child.value = S("*")
           THEN ColumnLoop(st, [info EXCEPT !.columns = S("*")],
                           children, i + 1)
           ELSE ColumnLoop(st,
                    [info EXCEPT !.columns = AddColumn(@, StrOf(child.value))],
                    children, i + 1)
      ELSE IF child.type = AGGREGATE_FUNCTION
      THEN LET func_name == child.value
               s1 == GenerateTemp(st)
               agg_temp == CurrentTemp(s1)
               s2 == IF func_name = S("COUNT")
                     THEN Emit(s1, <<S("COUNT"), S("*"), None, agg_temp>>)
                     ELSE Emit(s1, <<func_name, GetAggregateColumn(child),
                                     None, agg_temp>>)
           IN ColumnLoop(s2,
                  [info EXCEPT
                     !.has_aggregates = TRUE,
                     !.aggregates = Append(@, [function |-> func_name,
                                               temp |-> agg_temp]),
                     !.columns = AddColumn(@, StrOf(agg_temp))],
                  children, i + 1)
      ELSE ColumnLoop(st, info, children, i + 1)

AnalyzeColumnList(st, node, select_info) ==
    ColumnLoop(st, select_info, node.children, 1)

\* index of the first child of the given type, 0 when there is none
FirstOfType(children, type) ==
    IF \E i \in 1..Len(children) : children[i].type = type
    THEN CHOOSE i \in 1..Len(children) :
             /\ children[i].type = type
             /\ \A j \in 1..(i - 1) : children[j].type # type
    ELSE 0

\* only the first COLUMN_LIST child is analysed (break)
AnalyzeSelectList(st, node) ==
    LET i == FirstOfType(node.children, COLUMN_LIST)
    IN IF i = 0 THEN [st |-> st, select_info |-> NewSelectInfo]
       ELSE AnalyzeColumnList(st, node.children[i], NewSelectInfo)

(***************************************************************************)
(* _analyze_join_clauses and _analyze_join_clause                          *)
(***************************************************************************)
\* the loop over one JOIN clause's children: [join_table, join_condition,
\* table_info]
RECURSIVE JoinChildLoop(_, _, _)
JoinChildLoop(acc, children, i) ==
    IF i > Len(children) THEN acc
    ELSE IF children[i].type = TABLE_NAME
    THEN JoinChildLoop(
             [acc EXCEPT !.join_table = children[i].value,
                         !.table_info.tables = Append(@, children[i].value)],
             children, i + 1)
    ELSE IF children[i].type = ON_CLAUSE
    THEN JoinChildLoop(
             [acc EXCEPT !.join_condition = AnalyzeJoinCondition(children[i])],
             children, i + 1)
    ELSE JoinChildLoop(acc, children, i + 1)


\* a JOIN clause that emits with a table or a condition alone
AnalyzeJoinClauseEither(st, node, table_info) ==
    LET acc == JoinChildLoop([join_table |-> None, join_condition |-> None,
                              table_info |-> table_info], node.children, 1)
    IN IF Truthy(acc.join_table) \/ Truthy(acc.join_condition)
       THEN LET s1 == GenerateTemp(st)
                join_temp == CurrentTemp(s1)
                s2 == Emit(s1, <<S("JOIN"), table_info.main_table,
                                 acc.join_table, join_temp>>)
            IN [st |-> Emit(s2, <<S("ON"), S("table1.id"), S("table2.id"),
                                  S("EQ")>>),
                table_info |-> acc.table_info]
       ELSE [st |-> st, table_info |-> acc.table_info]

AnalyzeJoinClause(st, node, table_info) ==
    LET acc == JoinChildLoop([join_table |-> None, join_condition |-> None,
                              table_info |-> table_info], node.children, 1)
    IN IF Truthy(acc.join_table) /\ Truthy(acc.join_condition)
       THEN LET s1 == GenerateTemp(st)
                join_temp == CurrentTemp(s1)
                s2 == Emit(s1, <<S("JOIN"), table_info.main_table,
                                 acc.join_table, join_temp>>)
                s3 == IF s2.raised THEN s2
                      ELSE Emit(s2, <<S("ON"),
                                      S(DictGet(acc.join_condition, "left")),
                                      S(DictGet(acc.join_condition, "right")),
                                      S(DictGet(acc.join_condition, "op"))>>)
            IN [st |-> s3, table_info |-> acc.table_info]
       ELSE [st |-> st, table_info |-> acc.table_info]

RECURSIVE JoinLoop(_, _, _, _)
JoinLoop(st, info, children, i) ==
    IF i > Len(children) \/ st.raised THEN [st |-> st, table_info |-> info]
    ELSE IF children[i].type = JOIN_CLAUSE
    THEN LET r == AnalyzeJoinClause(st, children[i], info)
         IN JoinLoop(r.st, r.table_info, children, i + 1)
    ELSE JoinLoop(st, info, children, i + 1)

AnalyzeJoinClauses(st, node, table_info) ==
    JoinLoop(st, table_info, node.children, 1)

(***************************************************************************)
(* _analyze_where_clause and _analyze_having_clause                        *)
(***************************************************************************)
RECURSIVE WhereLoop(_, _, _)
WhereLoop(st, children, i) ==
    IF i > Len(children) \/ st.raised THEN st
    ELSE IF children[i].type = WHERE_CLAUSE
    THEN LET r == AnalyzeCondition(st, children[i])
             condition_temp == r.ret
         IN IF r.st.raised THEN r.st
            ELSE IF Truthy(condition_temp)
            THEN WhereLoop(Emit(r.st, <<S("WHERE"), condition_temp, None, None>>),
                           children, i + 1)
            ELSE WhereLoop(r.st, children, i + 1)
    ELSE WhereLoop(st, children, i + 1)

AnalyzeWhereClause(st, node) == WhereLoop(st, node.children, 1)

RECURSIVE HavingLoop(_, _, _)
HavingLoop(st, children, i) ==
    IF i > Len(children) \/ st.raised THEN st
    ELSE IF children[i].type = HAVING_CLAUSE
    THEN LET r == AnalyzeCondition(st, children[i])
             having_temp == r.ret
         IN IF r.st.raised THEN r.st
            ELSE IF Truthy(having_temp)
            THEN HavingLoop(Emit(r.st, <<S("HAVING"), having_temp, None, None>>),
                            children, i + 1)
            ELSE HavingLoop(r.st, children, i + 1)
    ELSE HavingLoop(st, children, i + 1)

AnalyzeHavingClause(st, node) == HavingLoop(st, node.children, 1)

(***************************************************************************)
(* _analyze_group_by_clause                                                *)
(***************************************************************************)
\* group_info['columns'] after the identifiers of one GROUP BY clause
RECURSIVE GroupColumns(_, _, _)
GroupColumns(columns, grandchildren, i) ==
    IF i > Len(grandchildren) THEN columns
    ELSE IF grandchildren[i].type = IDENTIFIER
    THEN GroupColumns(Append(columns, StrOf(grandchildren[i].value)),
                      grandchildren, i + 1)
    ELSE GroupColumns(columns, grandchildren, i + 1)

\* group_info is one record for the whole loop: its columns accumulate
\* over every GROUP BY clause of the statement
RECURSIVE GroupByLoop(_, _, _, _)
GroupByLoop(st, group_info, children, i) ==
    IF i > Len(children) \/ st.raised THEN st
    ELSE IF children[i].type = GROUP_BY_CLAUSE
    THEN LET columns == GroupColumns(group_info.columns,
                                     children[i].children, 1)
             info == [columns |-> columns, has_group_by |-> TRUE]
         IN IF columns # <<>>
            THEN LET s1 == GenerateTemp(st)
                     group_temp == CurrentTemp(s1)
                 IN GroupByLoop(Emit(s1, <<S("GROUP_BY"), S(Join(",", columns)),
                                           None, group_temp>>),
                                info, children, i + 1)
            ELSE GroupByLoop(st, info, children, i + 1)
    ELSE GroupByLoop(st, group_info, children, i + 1)

AnalyzeGroupByClause(st, node) ==
    GroupByLoop(st, [columns |-> <<>>, has_group_by |-> FALSE],
                node.children, 1)

(***************************************************************************)
(* _analyze_order_by_clause                                                *)
(***************************************************************************)
\* the direction of one ORDER_SPEC: the last ASC or DESC identifier child
RECURSIVE Direction(_, _, _)
Direction(direction, spec_children, i) ==
    IF i > Len(spec_children) THEN direction
    ELSE IF /\ spec_children[i].type = IDENTIFIER
            /\ spec_children[i].value \in {S("ASC"), S("DESC")}
    THEN Direction(StrOf(spec_children[i].value), spec_children, i + 1)
    ELSE Direction(direction, spec_children, i + 1)

RECURSIVE OrderSpecs(_, _, _)
OrderSpecs(order_specs, grandchildren, i) ==
    IF i > Len(grandchildren) THEN order_specs
    ELSE IF grandchildren[i].type = ORDER_SPEC
    THEN LET column_name == grandchildren[i].value
             direction == Direction("ASC", grandchildren[i].children, 1)
         IN OrderSpecs(
                Append(order_specs, Format(column_name) \o " " \o direction),
                grandchildren, i + 1)
    ELSE OrderSpecs(order_specs, grandchildren, i + 1)

RECURSIVE OrderByLoop(_, _, _)
OrderByLoop(st, children, i) ==
    IF i > Len(children) \/ st.raised THEN st
    ELSE IF children[i].type = ORDER_BY_CLAUSE
    THEN LET order_specs == OrderSpecs(<<>>, children[i].children, 1)
         IN IF order_specs # <<>>
            THEN LET s1 == GenerateTemp(st)
                     order_temp == CurrentTemp(s1)
                 IN OrderByLoop(Emit(s1, <<S("ORDER_BY"),
                                           S(Join(",", order_specs)),
                                           None, order_temp>>),
                                children, i + 1)
            ELSE OrderByLoop(st, children, i + 1)
    ELSE OrderByLoop(st, children, i + 1)

AnalyzeOrderByClause(st, node) == OrderByLoop(st, node.children, 1)

(***************************************************************************)
(* _analyze_select_statement, lines 104-110: SELECT, OUTPUT and END        *)
(***************************************************************************)

\* the final quadruples with OUTPUT ahead of SELECT
EmitOutputSelectEnd(st, select_info, table_info) ==
    LET s1 == GenerateTemp(st)
        result_temp == CurrentTemp(s1)
        s2 == Emit(s1, <<S("OUTPUT"), result_temp, None, None>>)
        s3 == Emit(s2, <<S("SELECT"), select_info.columns,
                         table_info.main_table, result_temp>>)
    IN Emit(s3, <<S("END"), None, None, None>>)

EmitSelectOutputEnd(st, select_info, table_info) ==
    LET s1 == GenerateTemp(st)
        result_temp == CurrentTemp(s1)
        s2 == Emit(s1, <<S("SELECT"), select_info.columns,
                         table_info.main_table, result_temp>>)
        s3 == IF s2.raised THEN s2
              ELSE Emit(s2, <<S("OUTPUT"), result_temp, None, None>>)
    IN IF s3.raised THEN s3
       ELSE Emit(s3, <<S("END"), None, None, None>>)

(***************************************************************************)
(* analyze, lines 53-55, and the whole call as a function of the instance  *)
(* state and the AST.                                                      *)
(***************************************************************************)
\* __init__
NewAnalyzer ==
    [quadruples |-> <<>>, temp_counter |-> 0, label_counter |-> 0,
     symbol_table |-> {}, generated |-> <<>>, raised |-> FALSE]


\* a reset that leaves the temp counter alone
ResetPassKeepCounter(st) ==
    [st EXCEPT !.quadruples = <<>>, !.label_counter = 0,
               !.generated = <<>>, !.raised = FALSE]

ResetPass(st) ==
    [st EXCEPT !.quadruples = <<>>, !.temp_counter = 0, !.label_counter = 0,
               !.generated = <<>>, !.raised = FALSE]


\* a dispatch that takes every root for a select statement
DispatchAnyRoot(st, a) == st

\* raise SemanticError for a root that is no select statement
Dispatch(st, a) ==
    IF a.type = SELECT_STMT THEN st ELSE [st EXCEPT !.raised = TRUE]

\* _analyze_select_statement; an exception skips what follows it
AnalyzeSelectStatement(st, node) ==
    LET s1 == Emit(st, <<S("BEGIN"), None, None, None>>)
        f == AnalyzeFromClause(s1, node)
        sl == AnalyzeSelectList(f.st, node)
        j == AnalyzeJoinClauses(sl.st, node, f.table_info)
        s5 == AnalyzeWhereClause(j.st, node)
        s6 == AnalyzeGroupByClause(s5, node)
        s7 == AnalyzeHavingClause(s6, node)
        s8 == AnalyzeOrderByClause(s7, node)
    IN IF s1.raised THEN s1
       ELSE IF sl.st.raised THEN sl.st
       ELSE IF j.st.raised THEN j.st
       ELSE IF s5.raised THEN s5
       ELSE IF s6.raised THEN s6
       ELSE IF s7.raised THEN s7
       ELSE IF s8.raised THEN s8
       ELSE EmitSelectOutputEnd(s8, sl.select_info, j.table_info)

\* what analyze(a) returns on an instance in state st
AnalyzeResult(st, a) ==
    LET s0 == Dispatch(ResetPass(st), a)
        s == IF s0.raised THEN s0 ELSE AnalyzeSelectStatement(s0, a)
    IN IF s.raised THEN <<>> ELSE s.quadruples

(***************************************************************************)
(* The ASTs analyze is called with.                                        *)
(***************************************************************************)
TableName(name) == ASTNode(TABLE_NAME, S(name), <<>>)
Ident(name) == ASTNode(IDENTIFIER, S(name), <<>>)
Aggregate(func) == ASTNode(AGGREGATE_FUNCTION, S(func), <<>>)
ColumnList(cols) == ASTNode(COLUMN_LIST, None, cols)
OnClause == ASTNode(ON_CLAUSE, None, <<>>)
JoinClause(children) == ASTNode(JOIN_CLAUSE, None, children)
WhereClause == ASTNode(WHERE_CLAUSE, None, <<>>)
HavingClause == ASTNode(HAVING_CLAUSE, None, <<>>)
GroupBy(cols) == ASTNode(GROUP_BY_CLAUSE, None, cols)
OrderSpec(name, children) == ASTNode(ORDER_SPEC, S(name), children)
OrderBy(specs) == ASTNode(ORDER_BY_CLAUSE, None, specs)
SelectStmt(children) == ASTNode(SELECT_STMT, None, children)

SeqsUpTo(set, n) == UNION {[1..k -> set] : k \in 0..n}

\* the children a select statement is built from in ClauseASTs
ClauseMenu ==
    { TableName("students"),
      ColumnList(<<Ident("major"), Aggregate("COUNT")>>),
      JoinClause(<<TableName("courses"), OnClause>>),
      WhereClause,
      GroupBy(<<Ident("major")>>),
      GroupBy(<<>>),
      HavingClause,
      OrderBy(<<OrderSpec("name", <<>>),
                OrderSpec("grade", <<Ident("DESC")>>)>>),
      OrderBy(<<>>) }

\* every clause combination, in every order, up to MaxClauses children
ClauseASTs == {SelectStmt(cs) : cs \in SeqsUpTo(ClauseMenu, MaxClauses)}

ColumnMenu ==
    {Ident("*"), Ident("name"), Aggregate("COUNT"), Aggregate("AVG")}

\* every select list up to MaxColumns entries, alone and before a GROUP BY
ColumnASTs ==
    {SelectStmt(<<TableName("students"), ColumnList(cols)>> \o rest) :
        cols \in SeqsUpTo(ColumnMenu, MaxColumns),
        rest \in {<<>>, <<GroupBy(<<Ident("major")>>)>>}}

JoinMenu ==
    { JoinClause(<<TableName("courses"), OnClause>>),
      JoinClause(<<OnClause, TableName("teachers")>>),
      JoinClause(<<TableName("courses")>>),
      JoinClause(<<OnClause>>),
      JoinClause(<<>>) }

\* every list of up to MaxJoins JOIN clauses, complete or not, with and
\* without a FROM table and a select list before it
JoinASTs ==
    {SelectStmt(first \o joins) :
        first \in {<<>>, <<TableName("students"),
                           ColumnList(<<Aggregate("COUNT")>>)>>},
        joins \in SeqsUpTo(JoinMenu, MaxJoins)}

\* roots that are no select statement
OtherASTs ==
    {ASTNode(type, None, cs) :
        type \in {WHERE_CLAUSE, CONDITION},
        cs \in SeqsUpTo({TableName("students"), WhereClause}, 1)}

ASTs == ClauseASTs \cup ColumnASTs \cup JoinASTs \cup OtherASTs

\* the queries of test_extended_semantic_analyzer, a query with a WHERE
\* clause, one with a JOIN and a root that is no select statement
ReuseASTs ==
    { SelectStmt(<<ColumnList(<<Ident("name")>>), TableName("students")>>),
      SelectStmt(<<ColumnList(<<Aggregate("COUNT"), Aggregate("AVG")>>),
                   TableName("students")>>),
      SelectStmt(<<ColumnList(<<Ident("major"), Aggregate("COUNT")>>),
                   TableName("students"), GroupBy(<<Ident("major")>>)>>),
      SelectStmt(<<ColumnList(<<Ident("name"), Ident("grade")>>),
                   TableName("students"),
                   OrderBy(<<OrderSpec("grade", <<Ident("DESC")>>)>>)>>),
      SelectStmt(<<ColumnList(<<Ident("*")>>), TableName("courses"),
                   JoinClause(<<TableName("teachers"), OnClause>>)>>),
      SelectStmt(<<ColumnList(<<Ident("name")>>), TableName("students"),
                   WhereClause>>),
      ASTNode(WHERE_CLAUSE, None, <<>>) }

(***************************************************************************)
(* The state machine: one analyzer instance.                               *)
(***************************************************************************)
VARIABLES
    ast,            \* the argument of the analyze call in progress
    pc,             \* where that call is; "idle" between calls
    quadruples,     \* self.quadruples
    temp_counter,   \* self.temp_counter
    label_counter,  \* self.label_counter
    symbol_table,   \* self.symbol_table.symbols
    generated,      \* what _generate_temp has returned in this call
    raised,         \* an exception is propagating to analyze's handler
    table_info,     \* local of _analyze_select_statement
    select_info,    \* local of _analyze_select_statement
    result,         \* what the last finished call returned
    calls,          \* finished analyze calls on this instance
    encountered     \* every table name put into table_info['tables'] so far

vars == <<ast, pc, quadruples, temp_counter, label_counter, symbol_table,
          generated, raised, table_info, select_info, result, calls,
          encountered>>

\* the instance fields and the call's bookkeeping as one pass state
Self ==
    [quadruples |-> quadruples, temp_counter |-> temp_counter,
     label_counter |-> label_counter, symbol_table |-> symbol_table,
     generated |-> generated, raised |-> raised]

\* store a pass state and go on: to next, or to the handler on an exception
Commit(st, next) ==
    /\ quadruples' = st.quadruples
    /\ temp_counter' = st.temp_counter
    /\ label_counter' = st.label_counter
    /\ symbol_table' = st.symbol_table
    /\ generated' = st.generated
    /\ raised' = st.raised
    /\ pc' = IF st.raised THEN "except" ELSE next

\* the value of ast before the first call
NoAST == ASTNode("NONE", None, <<>>)

Init ==
    /\ ast = NoAST
    /\ pc = "idle"
    /\ quadruples = NewAnalyzer.quadruples
    /\ temp_counter = NewAnalyzer.temp_counter
    /\ label_counter = NewAnalyzer.label_counter
    /\ symbol_table = NewAnalyzer.symbol_table
    /\ generated = <<>>
    /\ raised = FALSE
    /\ table_info = None
    /\ select_info = None
    /\ result = <<>>
    /\ calls = 0
    /\ encountered = {}

\* analyze, lines 53-64: reset, then dispatch on the root's type
AnalyzeCall(a) ==
    /\ pc = "idle"
    /\ ast' = a
    /\ Commit(Dispatch(ResetPass(Self), a), "begin")
    /\ table_info' = None
    /\ select_info' = None
    /\ UNCHANGED <<result, calls, encountered>>

\* the first call on a new instance
Analyze ==
    /\ calls = 0
    /\ \E a \in ASTs : AnalyzeCall(a)

\* a call on an instance that may have been used before
AnalyzeReused ==
    /\ calls < MaxCalls
    /\ \E a \in ReuseASTs : AnalyzeCall(a)

EmitBegin ==
    /\ pc = "begin"
    /\ Commit(Emit(Self, <<S("BEGIN"), None, None, None>>), "from")
    /\ UNCHANGED <<ast, table_info, select_info, result, calls, encountered>>

FromClause ==
    /\ pc = "from"
    /\ LET r == AnalyzeFromClause(Self, ast)
       IN /\ Commit(r.st, "select_list")
          /\ table_info' = r.table_info
          /\ encountered' = encountered \cup
                 {r.table_info.tables[i] : i \in 1..Len(r.table_info.tables)}
    /\ UNCHANGED <<ast, select_info, result, calls>>

SelectList ==
    /\ pc = "select_list"
    /\ LET r == AnalyzeSelectList(Self, ast)
       IN /\ Commit(r.st, "join")
          /\ select_info' = r.select_info
    /\ UNCHANGED <<ast, table_info, result, calls, encountered>>

JoinClauses ==
    /\ pc = "join"
    /\ LET r == AnalyzeJoinClauses(Self, ast, table_info)
       IN /\ Commit(r.st, "where")
          /\ table_info' = r.table_info
          /\ encountered' = encountered \cup
                 {r.table_info.tables[i] : i \in 1..Len(r.table_info.tables)}
    /\ UNCHANGED <<ast, select_info, result, calls>>

Where ==
    /\ pc = "where"
    /\ Commit(AnalyzeWhereClause(Self, ast), "group_by")
    /\ UNCHANGED <<ast, table_info, select_info, result, calls, encountered>>

GroupByClause ==
    /\ pc = "group_by"
    /\ Commit(AnalyzeGroupByClause(Self, ast), "having")
    /\ UNCHANGED <<ast, table_info, select_info, result, calls, encountered>>

Having ==
    /\ pc = "having"
    /\ Commit(AnalyzeHavingClause(Self, ast), "order_by")
    /\ UNCHANGED <<ast, table_info, select_info, result, calls, encountered>>

OrderByClause ==
    /\ pc = "order_by"
    /\ Commit(AnalyzeOrderByClause(Self, ast), "final")
    /\ UNCHANGED <<ast, table_info, select_info, result, calls, encountered>>

SelectOutputEnd ==
    /\ pc = "final"
    /\ Commit(EmitSelectOutputEnd(Self, select_info, table_info), "return")
    /\ UNCHANGED <<ast, table_info, select_info, result, calls, encountered>>

\* analyze, line 70: return self.quadruples
Return ==
    /\ pc = "return"
    /\ result' = quadruples
    /\ calls' = calls + 1
    /\ pc' = "idle"
    /\ table_info' = None
    /\ select_info' = None
    /\ UNCHANGED <<ast, quadruples, temp_counter, label_counter, symbol_table,
                   generated, raised, encountered>>

\* analyze, lines 72-74: except Exception: return []
HandleException ==
    /\ pc = "except"
    /\ result' = <<>>
    /\ raised' = FALSE
    /\ calls' = calls + 1
    /\ pc' = "idle"
    /\ table_info' = None
    /\ select_info' = None
    /\ UNCHANGED <<ast, quadruples, temp_counter, label_counter, symbol_table,
                   generated, encountered>>

Pass ==
    \/ EmitBegin
    \/ FromClause
    \/ SelectList
    \/ JoinClauses
    \/ Where
    \/ GroupByClause
    \/ Having
    \/ OrderByClause
    \/ SelectOutputEnd
    \/ Return
    \/ HandleException

Next == Analyze \/ Pass

\* one call on a new instance, over every AST of ASTs
Spec == Init /\ [][Next]_vars

NextReuse == AnalyzeReused \/ Pass

\* up to MaxCalls calls on one instance, over the ASTs of ReuseASTs
SpecReuse == Init /\ [][NextReuse]_vars

(***************************************************************************)
(* Vocabulary of the properties.                                           *)
(***************************************************************************)
\* an analyze call has finished and result is what it returned
Returned == pc = "idle" /\ calls > 0

IsSelect(a) == a.type = SELECT_STMT

HasChild(node, type) ==
    \E i \in 1..Len(node.children) : node.children[i].type = type

\* positions in a quadruple sequence of the quadruples with operator op
Positions(quads, op) == {i \in 1..Len(quads) : quads[i].op = S(op)}

\* the SELECT quadruple of a returned sequence
FinalSelect(quads) == quads[Len(quads) - 2]

\* the children of the column list the analyzer reads: those of the first
\* COLUMN_LIST child of the statement
SelectColumns(a) ==
    LET i == FirstOfType(a.children, COLUMN_LIST)
    IN IF i = 0 THEN <<>> ELSE a.children[i].children

HasStar(cols) == \E i \in 1..Len(cols) : cols[i] = Ident("*")

\* aggregate-function nodes among the first i entries of a select list
AggregatesUpTo(cols, i) ==
    Cardinality({j \in 1..i : cols[j].type = AGGREGATE_FUNCTION})

\* the select list has been analysed in the current or the last call
SelectListDone ==
    /\ IsSelect(ast)
    /\ pc \notin {"begin", "from", "select_list"}

\* the temporary a quadruple result names: 0 when it names none
TempIndex(v) ==
    IF \E n \in 1..temp_counter : v = S(TempName(n))
    THEN CHOOSE n \in 1..temp_counter : v = S(TempName(n))
    ELSE 0

\* positions of the quadruples whose result is a temporary
TempPositions(quads) == {i \in 1..Len(quads) : TempIndex(quads[i].result) > 0}

(***************************************************************************)
(* C1: a returned sequence that is not empty starts with BEGIN, ends with  *)
(* END, and SELECT then OUTPUT stand right before END, OUTPUT's arg1 being *)
(* the result temporary of that SELECT.                                    *)
(***************************************************************************)
C1_BeginSelectOutputEnd ==
    (Returned /\ result # <<>>) =>
        LET n == Len(result) IN
        /\ n >= 4
        /\ result[1] = Quadruple(S("BEGIN"), None, None, None)
        /\ result[n] = Quadruple(S("END"), None, None, None)
        /\ result[n - 2].op = S("SELECT")
        /\ result[n - 1].op = S("OUTPUT")
        /\ TempIndex(result[n - 2].result) > 0
        /\ result[n - 1].arg1 = result[n - 2].result
        /\ Positions(result, "BEGIN") = {1}
        /\ Positions(result, "END") = {n}

\* a returned sequence with clause quadruples between BEGIN and SELECT
C1_Witness ==
    /\ Returned
    /\ Len(result) > 5
    /\ Positions(result, "ORDER_BY") # {}

(***************************************************************************)
(* C2: for a select statement with a WHERE (a HAVING) clause the returned  *)
(* sequence holds one CONDITION quadruple per such clause, whose result is *)
(* a temporary, followed by a WHERE (a HAVING) quadruple whose arg1 is     *)
(* that temporary.                                                         *)
(***************************************************************************)
ConditionThen(quads, op) ==
    \E i \in Positions(quads, "CONDITION") :
        /\ TempIndex(quads[i].result) > 0
        /\ i < Len(quads)
        /\ quads[i + 1] = Quadruple(S(op), quads[i].result, None, None)

C2_ConditionQuadruples ==
    (Returned /\ IsSelect(ast)) =>
        /\ HasChild(ast, WHERE_CLAUSE) => ConditionThen(result, "WHERE")
        /\ HasChild(ast, HAVING_CLAUSE) => ConditionThen(result, "HAVING")

(***************************************************************************)
(* C3: analyze of a select statement, whatever its children, returns a     *)
(* sequence that is not empty.                                             *)
(***************************************************************************)
C3_SelectNeverFails ==
    (Returned /\ IsSelect(ast)) => result # <<>>

(***************************************************************************)
(* C4: when the select list holds a `*` identifier at any position, arg1   *)
(* of the final SELECT quadruple is the wildcard marker.                   *)
(***************************************************************************)
C4_WildcardAnywhere ==
    (Returned /\ result # <<>> /\ HasStar(SelectColumns(ast))) =>
        FinalSelect(result).arg1 = S("*")

(***************************************************************************)
(* C5: in the returned sequence of a statement with a JOIN clause (table   *)
(* and ON) and a WHERE clause there is a WHERE quadruple and every JOIN    *)
(* and ON quadruple precedes it; with a GROUP BY clause (with columns) and *)
(* a HAVING clause there is a HAVING quadruple and the GROUP_BY quadruple  *)
(* precedes it; an ORDER_BY quadruple precedes the final SELECT.           *)
(***************************************************************************)
HasCompleteJoin(a) ==
    \E i \in 1..Len(a.children) :
        /\ a.children[i].type = JOIN_CLAUSE
        /\ HasChild(a.children[i], TABLE_NAME)
        /\ HasChild(a.children[i], ON_CLAUSE)

HasGroupColumns(a) ==
    \E i \in 1..Len(a.children) :
        /\ a.children[i].type = GROUP_BY_CLAUSE
        /\ HasChild(a.children[i], IDENTIFIER)

\* there are quadruples with the later operator, and every quadruple with
\* one of the earlier operators precedes each of them
Precede(quads, earlier, later) ==
    /\ Positions(quads, later) # {}
    /\ \A e \in earlier : \A i \in Positions(quads, e) :
           \A j \in Positions(quads, later) : i < j

C5_ClauseOrder ==
    (Returned /\ IsSelect(ast)) =>
        /\ (HasCompleteJoin(ast) /\ HasChild(ast, WHERE_CLAUSE)) =>
               Precede(result, {"JOIN", "ON"}, "WHERE")
        /\ (HasGroupColumns(ast) /\ HasChild(ast, HAVING_CLAUSE)) =>
               Precede(result, {"GROUP_BY"}, "HAVING")
        /\ Positions(result, "ORDER_BY") # {} =>
               Precede(result, {"ORDER_BY"}, "SELECT")

\* the part of C5 the code keeps: in every returned sequence, and in the
\* buffer at every moment, the clause quadruples stand in the order of the
\* passes, JOIN and ON before GROUP_BY before ORDER_BY before SELECT
ClauseRank(op) ==
    IF op = S("BEGIN") THEN 0
    ELSE IF op \in {S("JOIN"), S("ON")} THEN 2
    ELSE IF op = S("WHERE") THEN 3
    ELSE IF op = S("GROUP_BY") THEN 4
    ELSE IF op = S("HAVING") THEN 5
    ELSE IF op = S("ORDER_BY") THEN 6
    ELSE IF op = S("SELECT") THEN 7
    ELSE IF op = S("OUTPUT") THEN 8
    ELSE IF op = S("END") THEN 9
    ELSE 1

PassOrderKept ==
    \A i, j \in 1..Len(quadruples) :
        i < j => ClauseRank(quadruples[i].op) <= ClauseRank(quadruples[j].op)

(***************************************************************************)
(* C6: what a call returns depends on its AST alone: on an instance used   *)
(* for any earlier calls, failed ones included, it is what a new instance  *)
(* returns for that AST, and the temporaries of the call start at T1.      *)
(***************************************************************************)
C6_ResultDependsOnAstOnly ==
    Returned =>
        /\ result = AnalyzeResult(NewAnalyzer, ast)
        /\ generated # <<>> => generated[1] = "T1"
        /\ label_counter = 0

\* a third call on the instance, which has analysed statements on two
\* different tables, returns a sequence with clause quadruples
C6_Witness ==
    /\ Returned
    /\ calls = 3
    /\ Len(result) > 4
    /\ Cardinality(symbol_table) = 2

\* a failed call leaves its counter and its buffer on the instance for
\* the next call to reset
C6_LeftoverWitness ==
    /\ pc = "idle"
    /\ calls > 0
    /\ temp_counter > 0
    /\ quadruples # <<>>
    /\ result = <<>>

(***************************************************************************)
(* C7: for a root that is no select statement analyze returns the empty    *)
(* sequence, no exception is left propagating, and the call produces no    *)
(* quadruple, not even BEGIN.                                              *)
(***************************************************************************)
C7_OtherRootReturnsEmpty ==
    /\ (~IsSelect(ast) /\ pc # "idle") => (pc = "except" /\ quadruples = <<>>)
    /\ (Returned /\ ~IsSelect(ast)) =>
           (result = <<>> /\ quadruples = <<>> /\ ~raised)
    /\ pc = "idle" => ~raised

\* such a call has returned on an instance that served a select before
C7_Witness ==
    /\ Returned
    /\ ~IsSelect(ast)
    /\ calls > 1
    /\ symbol_table # {}

(***************************************************************************)
(* C8: within a call the temporaries generated are pairwise distinct, and  *)
(* the temporaries that are results of the emitted quadruples are T1, T2,  *)
(* ... in emission order: strictly increasing, from T1.                    *)
(***************************************************************************)
C8_TempsDistinctIncreasing ==
    /\ \A i, j \in 1..Len(generated) : i # j => generated[i] # generated[j]
    /\ \A i, j \in TempPositions(quadruples) :
           i < j => TempIndex(quadruples[i].result) <
                        TempIndex(quadruples[j].result)
    /\ TempPositions(quadruples) # {} =>
           \E i \in TempPositions(quadruples) :
               /\ quadruples[i].result = S("T1")
               /\ \A j \in TempPositions(quadruples) : i <= j
    /\ Len(generated) = temp_counter

\* a returned sequence with four temporaries
C8_Witness ==
    /\ Returned
    /\ result # <<>>
    /\ Cardinality(TempPositions(result)) >= 4

(***************************************************************************)
(* C9: for a select list without a wildcard the k-th aggregate-function    *)
(* node gives the k-th quadruple after BEGIN: its operator the function,   *)
(* arg1 `*` for COUNT and the placeholder column for any other, its result *)
(* Tk; no other aggregate quadruple is emitted; and arg1 of the final      *)
(* SELECT is the list of the plain column names and those temporaries in   *)
(* select-list order.                                                      *)
(***************************************************************************)
AggregateOps == {S("COUNT"), S("SUM"), S("AVG"), S("MAX"), S("MIN")}

ExpectedColumns(cols) ==
    L([i \in 1..Len(cols) |->
          IF cols[i].type = AGGREGATE_FUNCTION
          THEN TempName(AggregatesUpTo(cols, i))
          ELSE StrOf(cols[i].value)])

C9_AggregatesAndColumns ==
    LET cols == SelectColumns(ast)
        total == AggregatesUpTo(cols, Len(cols))
    IN (SelectListDone /\ ~HasStar(cols)) =>
        /\ Len(quadruples) >= 1 + total
        /\ \A i \in 1..Len(cols) :
               cols[i].type = AGGREGATE_FUNCTION =>
                   quadruples[1 + AggregatesUpTo(cols, i)] =
                       Quadruple(cols[i].value,
                                 IF cols[i].value = S("COUNT")
                                 THEN S("*") ELSE S("value"),
                                 None,
                                 S(TempName(AggregatesUpTo(cols, i))))
        /\ {i \in 1..Len(quadruples) : quadruples[i].op \in AggregateOps}
               = 2..(1 + total)
        /\ (Returned /\ result # <<>>) =>
               FinalSelect(result).arg1 = ExpectedColumns(cols)

\* a returned sequence for a select list of a column between two aggregates
C9_Witness ==
    LET cols == SelectColumns(ast)
    IN /\ Returned
       /\ result # <<>>
       /\ Len(cols) = 3
       /\ cols[1].type = AGGREGATE_FUNCTION
       /\ cols[2].type = IDENTIFIER
       /\ cols[3] = Aggregate("COUNT")
       /\ ~HasStar(cols)

(***************************************************************************)
(* C10: the JOIN pass walks the JOIN clauses in document order; the k-th   *)
(* clause that has a table name and an ON clause gives one JOIN quadruple  *)
(* (main table, joined table, the next fresh temporary) with one ON        *)
(* quadruple right after it, and a clause that lacks either gives no       *)
(* quadruple and takes no temporary.                                       *)
(***************************************************************************)
IsCompleteJoin(node) ==
    /\ node.type = JOIN_CLAUSE
    /\ HasChild(node, TABLE_NAME)
    /\ HasChild(node, ON_CLAUSE)

\* index of the last child of the given type, 0 when there is none
LastOfType(children, type) ==
    IF \E i \in 1..Len(children) : children[i].type = type
    THEN CHOOSE i \in 1..Len(children) :
             /\ children[i].type = type
             /\ \A j \in (i + 1)..Len(children) : children[j].type # type
    ELSE 0

\* the joined table of a JOIN clause: the value of its last TABLE_NAME child
JoinedTable(node) ==
    node.children[LastOfType(node.children, TABLE_NAME)].value

\* complete JOIN clauses among the first i children of the statement
CompleteJoinsUpTo(a, i) ==
    Cardinality({j \in 1..i : IsCompleteJoin(a.children[j])})

\* the main table: the value of the statement's last TABLE_NAME child
MainTable(a) ==
    LET i == LastOfType(a.children, TABLE_NAME)
    IN IF i = 0 THEN None ELSE a.children[i].value

C10_JoinQuadruples ==
    LET aggs == AggregatesUpTo(SelectColumns(ast), Len(SelectColumns(ast)))
        joins == CompleteJoinsUpTo(ast, Len(ast.children))
    IN (IsSelect(ast) /\ pc = "where") =>
        /\ Len(quadruples) = 1 + aggs + 2 * joins
        /\ temp_counter = aggs + joins
        /\ \A i \in 1..Len(ast.children) :
               IsCompleteJoin(ast.children[i]) =>
                   LET k == CompleteJoinsUpTo(ast, i) IN
                   /\ quadruples[aggs + 2 * k] =
                          Quadruple(S("JOIN"), MainTable(ast),
                                    JoinedTable(ast.children[i]),
                                    S(TempName(aggs + k)))
                   /\ quadruples[aggs + 2 * k + 1] =
                          Quadruple(S("ON"), S("table1.id"), S("table2.id"),
                                    S("EQ"))

\* the pass has run over two complete JOIN clauses, for two different
\* tables, with an incomplete one between them
C10_Witness ==
    /\ pc = "where"
    /\ \E i, j, k \in 1..Len(ast.children) :
           /\ i < j
           /\ j < k
           /\ IsCompleteJoin(ast.children[i])
           /\ ast.children[j].type = JOIN_CLAUSE
           /\ ~IsCompleteJoin(ast.children[j])
           /\ IsCompleteJoin(ast.children[k])
           /\ JoinedTable(ast.children[i]) # JoinedTable(ast.children[k])

(***************************************************************************)
(* C11: analyze never resets the symbol table: at every moment, for every  *)
(* table name met so far in a FROM or a JOIN clause of any call on the     *)
(* instance, lookup returns the one symbol of that name, of type TABLE,    *)
(* scope GLOBAL, line 0 and column 0.                                      *)
(***************************************************************************)
C11_FromAndJoinTablesRegistered ==
    \A t \in encountered :
        lookup(symbol_table, t) = Symbol(t, "TABLE", "GLOBAL", 0, 0)

\* the part of C11 the code keeps.  The table holds one TABLE symbol per
\* name and nothing else, and once the FROM pass of a call on a select
\* statement has run, every TABLE_NAME child of the statement is in it
FromTablesRegistered ==
    /\ \A s \in symbol_table :
           /\ s = Symbol(s.name, "TABLE", "GLOBAL", 0, 0)
           /\ s.name \in encountered
           /\ lookup(symbol_table, s.name) = s
    /\ (IsSelect(ast) /\ pc \notin {"begin", "from"}) =>
           \A i \in 1..Len(ast.children) :
               ast.children[i].type = TABLE_NAME =>
                   \E s \in symbol_table : s.name = ast.children[i].value

\* no step of analyze, the reset included, takes a symbol out of the table
SymbolTableNeverReset ==
    [][symbol_table \subseteq symbol_table']_vars

\* the table has kept the symbols of two calls on different tables
SymbolTableWitness ==
    /\ Returned
    /\ calls > 1
    /\ Cardinality(symbol_table) = 2

====
